---- MODULE Spec2Model ----
(***************************************************************************)
(* Rent-payment and landlord-ledger logic of the property back office     *)
(* (src/app.py): the tenancy registry (assign_tenant, end_lease) and the   *)
(* rent ledger engine (add_payment = record_payment, renew_rent =          *)
(* renew_lease_with_payment).                                              *)
(*                                                                         *)
(* Every handler runs inside one BEGIN TRANSACTION .. commit/rollback and  *)
(* is one action.  The tables are the state; `resp` is the request just    *)
(* served together with the answer the handler gave.                       *)
(*                                                                         *)
(* Money: the handlers compute on Python floats.  The model keeps every    *)
(* amount as an integer number of minor units and draws the inputs from    *)
(* multiples of AmountStep, for which `amount * 0.10` is exact; rounding   *)
(* of binary floating point is outside the model.                          *)
(* Free-text columns (description, narration, names) take part in no       *)
(* decision and are left out of the rows.                                  *)
(***************************************************************************)
EXTENDS Integers, Sequences, FiniteSets, TLC

VARIABLES tenants, properties, units, payments, ledger, resp, txn

vars == <<tenants, properties, units, payments, ledger, resp, txn>>

(* ----------------------------- bounds ---------------------------------- *)

\* most payment rows a behaviour of Spec inserts
MaxPayments == 3
\* largest amount a request carries, in multiples of AmountStep
MaxAmount == 3
\* most payment rows a behaviour of SpecRegistry inserts
MaxRegistryPayments == 1
\* payment rows and landlord transactions while statements are built
MaxStatementRows == 3

(* ------------------------- values and inputs --------------------------- *)

\* SQL NULL / Python None in an id or a numeric column
NULL == -1

\* management fee, percent of the amount: `amount * 0.10`
FeePercent == 10

\* smallest step of an amount for which the fee is a whole minor unit
AmountStep == 100 \div FeePercent

Amounts == {AmountStep * k : k \in 1..MaxAmount}

\* payment_date of a request
Dates == {1}

\* lease dates a tenant is created with, and those a renewal sets
InitialLeaseDate == 1

LeaseDates == {InitialLeaseDate + 1}

PaymentMethods == {"Cash"}

\* request.form.get('payment_type', 'Full') of renew_rent
PaymentTypeHints == {"Full", "Partial"}

LandlordIds == {1, 2}

PropertyIds == {1, 2}

UnitIds == {1, 2}

TenantIds == {1, 2}

\* a tenant id that is in no row of the tenants table
UnknownTenant == 1 + Cardinality(TenantIds)

RequestTenantIds == TenantIds \cup {UnknownTenant}

\* properties table: 1 is a standalone property with a price, 2 is a
\* multi-unit container, which carries no price of its own
InitProperties ==
    [p \in PropertyIds |->
        IF p = 1
        THEN [landlord_id |-> 1, price |-> 2 * AmountStep, status |-> "Vacant"]
        ELSE [landlord_id |-> 2, price |-> NULL, status |-> "Vacant"]]

\* property_units table: both units belong to property 2
InitUnits ==
    [u \in UnitIds |->
        [property_id |-> 2,
         price |-> IF u = 1 THEN 3 * AmountStep ELSE AmountStep,
         status |-> "Vacant",
         tenant_id |-> NULL]]

\* tenants table, tenants created unassigned
InitTenants ==
    [t \in TenantIds |->
        [property_id |-> NULL, unit_id |-> NULL,
         lease_start_date |-> InitialLeaseDate,
         lease_end_date |-> InitialLeaseDate]]

\* no request served yet; every handler fills the fields of its own request
\* and answer and leaves the others as here
NoResponse ==
    [op |-> "none", tenant_id |-> NULL, amount |-> NULL, result |-> "none",
     property_id |-> NULL, unit_id |-> NULL, landlord_id |-> NULL,
     start_date |-> NULL, end_date |-> NULL,
     transaction_type |-> "", amount_raw |-> "",
     transactions |-> << >>, balance |-> NULL]

\* the connections that can be open at once, one per request in progress
Sessions == {1, 2}

\* a connection with no request in progress and no answer given yet
NoTransaction ==
    [pc |-> "idle", tenant_id |-> NULL, amount |-> NULL,
     payment_method |-> "", payment_date |-> NULL, lock |-> "none",
     rent_amount |-> NULL, total_outstanding |-> NULL, is_renewal |-> FALSE,
     rows |-> << >>, result |-> "none"]

\* every handler modelled as one step runs with no other request in
\* progress: all connections stay as here
NoTransactions == [s \in Sessions |-> NoTransaction]

\* The registry as add_tenant leaves it after tenant 1 was created in unit 1
\* of property 2 and tenant 2 in the standalone property 1; no payment yet.
Init ==
    /\ tenants = [InitTenants EXCEPT ![1].property_id = 2, ![1].unit_id = 1,
                                     ![2].property_id = 1]
    /\ properties = [InitProperties EXCEPT ![1].status = "Occupied"]
    /\ units = [InitUnits EXCEPT ![1].status = "Occupied",
                                 ![1].tenant_id = 1]
    /\ payments = << >>
    /\ ledger = << >>
    /\ resp = NoResponse
    /\ txn = NoTransactions

\* Every property and unit Vacant, every tenant unassigned.
InitRegistry ==
    /\ tenants = InitTenants
    /\ properties = InitProperties
    /\ units = InitUnits
    /\ payments = << >>
    /\ ledger = << >>
    /\ resp = NoResponse
    /\ txn = NoTransactions

Response(op, tenant_id, amount, result) ==
    [NoResponse EXCEPT !.op = op, !.tenant_id = tenant_id,
                       !.amount = amount, !.result = result]

\* the answer of a registry handler to a request naming a property and a unit
RegistryResponse(op, tenant_id, property_id, unit_id, result) ==
    [NoResponse EXCEPT !.op = op, !.tenant_id = tenant_id,
                       !.property_id = property_id, !.unit_id = unit_id,
                       !.result = result]

\* created_at of the next row: the rows of both tables, in the order of their
\* creation, carry 1, 2, 3, ...
NextCreatedAt == Len(payments) + Len(ledger) + 1

(* ------------------------- queries on the tables ----------------------- *)

\* TenantFound with the inner JOIN on properties turned into a LEFT JOIN: a
\* tenant without a property still yields a row
TenantFound_LeftJoin(tenant_id) ==
    tenant_id \in TenantIds

\* the row of `FROM tenants t JOIN properties p ON t.property_id = p.id
\* WHERE t.id = ?` exists
TenantFound(tenant_id) ==
    /\ tenant_id \in TenantIds
    /\ tenants[tenant_id].property_id # NULL

\* CASE WHEN t.unit_id IS NOT NULL THEN u.price ELSE p.price END
\* (the columns of a row that did not join are NULL)
RentAmount(tenant_id) ==
    IF tenants[tenant_id].unit_id # NULL
    THEN units[tenants[tenant_id].unit_id].price
    ELSE IF tenants[tenant_id].property_id # NULL
    THEN properties[tenants[tenant_id].property_id].price
    ELSE NULL

RECURSIVE SumBalanceDue(_, _)
\* SUM(balance_due) over rows WHERE tenant_id = ? AND balance_due > 0
SumBalanceDue(rows, tenant_id) ==
    IF rows = << >>
    THEN 0
    ELSE (IF Head(rows).tenant_id = tenant_id /\ Head(rows).balance_due > 0
          THEN Head(rows).balance_due
          ELSE 0) + SumBalanceDue(Tail(rows), tenant_id)

\* float(outstanding['total_outstanding'] or 0)
TotalOutstanding(tenant_id) == SumBalanceDue(payments, tenant_id)

\* CompletedCycles without `tenant_id = ?` in its WHERE
CompletedCycles_AnyTenant(tenant_id) ==
    Cardinality({i \in DOMAIN payments :
                    /\ payments[i].payment_type = "Full"
                    /\ payments[i].balance_due = 0})

\* COUNT(*) WHERE tenant_id = ? AND payment_type = 'Full' AND balance_due = 0
CompletedCycles(tenant_id) ==
    Cardinality({i \in DOMAIN payments :
                    /\ payments[i].tenant_id = tenant_id
                    /\ payments[i].payment_type = "Full"
                    /\ payments[i].balance_due = 0})

IsRenewal(tenant_id) == CompletedCycles(tenant_id) >= 1

(* --------------------- add_payment (record_payment) -------------------- *)

\* AmountExceeds with the outstanding-balance check lost: only the rent is a
\* ceiling
AmountExceeds_RentOnly(amount, total_outstanding, rent_amount) ==
    amount > rent_amount

\* `if amount > total_outstanding` when completing a partial,
\* `if amount > rent_amount` when a new cycle starts
AmountExceeds(amount, total_outstanding, rent_amount) ==
    IF total_outstanding > 0
    THEN amount > total_outstanding
    ELSE amount > rent_amount

\* PaymentType with `>` written for `>=`
PaymentType_Strict(amount, total_outstanding, rent_amount) ==
    IF total_outstanding > 0
    THEN (IF amount > total_outstanding THEN "Full" ELSE "Partial")
    ELSE (IF amount > rent_amount THEN "Full" ELSE "Partial")

\* payment_type = 'Full' if amount >= <ceiling> else 'Partial'
PaymentType(amount, total_outstanding, rent_amount) ==
    IF total_outstanding > 0
    THEN (IF amount >= total_outstanding THEN "Full" ELSE "Partial")
    ELSE (IF amount >= rent_amount THEN "Full" ELSE "Partial")

\* BalanceDue with the new-cycle remainder subtracted the wrong way round
BalanceDue_Flipped(amount, total_outstanding, rent_amount) ==
    IF total_outstanding > 0
    THEN (IF amount >= total_outstanding THEN 0 ELSE total_outstanding - amount)
    ELSE (IF amount >= rent_amount THEN 0 ELSE amount - rent_amount)

\* BalanceDue with the remainder of a completing payment taken from the rent
\* instead of from the outstanding balance
BalanceDue_FromRent(amount, total_outstanding, rent_amount) ==
    IF total_outstanding > 0
    THEN (IF amount >= total_outstanding THEN 0 ELSE rent_amount - amount)
    ELSE (IF amount >= rent_amount THEN 0 ELSE rent_amount - amount)

\* balance_due = 0 if amount >= <ceiling> else <ceiling> - amount
BalanceDue(amount, total_outstanding, rent_amount) ==
    IF total_outstanding > 0
    THEN (IF amount >= total_outstanding THEN 0 ELSE total_outstanding - amount)
    ELSE (IF amount >= rent_amount THEN 0 ELSE rent_amount - amount)

\* deduction = amount * 0.10
Deduction(amount) == (amount * FeePercent) \div 100

\* DebitAmount charging the fee of a renewal payment that leaves a balance
DebitAmount_OnPartial(amount, balance_due, is_renewal, total_outstanding) ==
    IF is_renewal /\ total_outstanding = 0 THEN Deduction(amount) ELSE 0

\* DebitAmount charging the fee on every completion of a renewing tenant,
\* also when the payment completes a partial
DebitAmount_AnyCompletion(amount, balance_due, is_renewal, total_outstanding) ==
    IF balance_due = 0
    THEN (IF is_renewal THEN Deduction(amount) ELSE 0)
    ELSE 0

\* debit_amount of the three branches of the credit/debit split
DebitAmount(amount, balance_due, is_renewal, total_outstanding) ==
    IF balance_due = 0
    THEN (IF is_renewal /\ total_outstanding = 0 THEN Deduction(amount) ELSE 0)
    ELSE 0

\* CreditAmount crediting a renewal in full, the fee not taken off
CreditAmount_NoFee(amount, balance_due, is_renewal, total_outstanding) ==
    IF balance_due = 0 THEN amount ELSE 0

\* CreditAmount crediting a payment that leaves the cycle open
CreditAmount_Early(amount, balance_due, is_renewal, total_outstanding) ==
    IF balance_due = 0
    THEN (IF is_renewal /\ total_outstanding = 0
          THEN amount - Deduction(amount)
          ELSE amount)
    ELSE amount

\* credit_amount of the three branches of the credit/debit split
CreditAmount(amount, balance_due, is_renewal, total_outstanding) ==
    IF balance_due = 0
    THEN (IF is_renewal /\ total_outstanding = 0
          THEN amount - Deduction(amount)
          ELSE amount)
    ELSE 0

\* ClearOldPartials without `balance_due > 0` in its WHERE
ClearOldPartials_NoOpenFilter(rows, tenant_id, lastrowid) ==
    [i \in DOMAIN rows |->
        IF /\ rows[i].tenant_id = tenant_id
           /\ i # lastrowid
        THEN [rows[i] EXCEPT !.balance_due = 0, !.payment_type = "Full"]
        ELSE rows[i]]

\* ClearOldPartials without `tenant_id = ?` in its WHERE
ClearOldPartials_AnyTenant(rows, tenant_id, lastrowid) ==
    [i \in DOMAIN rows |->
        IF /\ rows[i].balance_due > 0
           /\ i # lastrowid
        THEN [rows[i] EXCEPT !.balance_due = 0, !.payment_type = "Full"]
        ELSE rows[i]]

\* UPDATE payments SET balance_due = 0, payment_type = 'Full'
\* WHERE tenant_id = ? AND balance_due > 0 AND id != ?
ClearOldPartials(rows, tenant_id, lastrowid) ==
    [i \in DOMAIN rows |->
        IF /\ rows[i].tenant_id = tenant_id
           /\ rows[i].balance_due > 0
           /\ i # lastrowid
        THEN [rows[i] EXCEPT !.balance_due = 0, !.payment_type = "Full"]
        ELSE rows[i]]

\* the row add_payment inserts
NewPaymentRow(tenant_id, amount, payment_method, payment_date) ==
    LET rent_amount == RentAmount(tenant_id)
        total_outstanding == TotalOutstanding(tenant_id)
        is_renewal == IsRenewal(tenant_id)
        balance_due == BalanceDue(amount, total_outstanding, rent_amount)
    IN  [tenant_id |-> tenant_id,
         property_id |-> tenants[tenant_id].property_id,
         unit_id |-> tenants[tenant_id].unit_id,
         amount |-> amount,
         payment_type |-> PaymentType(amount, total_outstanding, rent_amount),
         payment_method |-> payment_method,
         payment_date |-> payment_date,
         created_at |-> NextCreatedAt,
         balance_due |-> balance_due,
         credit |-> CreditAmount(amount, balance_due, is_renewal,
                                 total_outstanding),
         debit |-> DebitAmount(amount, balance_due, is_renewal,
                               total_outstanding)]

\* POST /payments/add
add_payment(tenant_id, amount, payment_method, payment_date) ==
    /\ UNCHANGED <<txn, tenants, properties, units, ledger>>
    /\ IF ~TenantFound(tenant_id)
       THEN /\ resp' = Response("add_payment", tenant_id, amount,
                                "Tenant not found")
            /\ UNCHANGED payments
       ELSE IF RentAmount(tenant_id) = NULL
       THEN \* float(None) raises; the handler rolls back and answers 500
            /\ resp' = Response("add_payment", tenant_id, amount, "Error")
            /\ UNCHANGED payments
       ELSE LET rent_amount == RentAmount(tenant_id)
                total_outstanding == TotalOutstanding(tenant_id)
                row == NewPaymentRow(tenant_id, amount, payment_method,
                                     payment_date)
                inserted == Append(payments, row)
            IN  IF AmountExceeds(amount, total_outstanding, rent_amount)
                THEN /\ resp' = Response("add_payment", tenant_id, amount,
                                   IF total_outstanding > 0
                                   THEN "exceeds outstanding balance"
                                   ELSE "exceeds rent amount")
                     /\ UNCHANGED payments
                ELSE /\ payments' =
                           IF total_outstanding > 0 /\ row.balance_due = 0
                           THEN ClearOldPartials(inserted, tenant_id,
                                                 Len(inserted))
                           ELSE inserted
                     /\ resp' = Response("add_payment", tenant_id, amount,
                                         "success")

(* ----------------- renew_rent (renew_lease_with_payment) --------------- *)

\* balance_due = 0; if payment_type == 'Partial': rent_amount - amount
RenewBalanceDue(payment_type, amount, rent_amount) ==
    IF payment_type = "Partial" THEN rent_amount - amount ELSE 0

\* a row of landlord_transactions
LedgerEntry(landlord_id, date, transaction_type, amount, payment_method, created_at) ==
    [landlord_id |-> landlord_id, date |-> date,
     transaction_type |-> transaction_type, amount |-> amount,
     payment_method |-> payment_method, created_at |-> created_at]

\* the landlord_transactions rows one renewal writes
\* RenewLedgerEntries crediting a renewal net of the fee in a single entry
RenewLedgerEntries_Net(is_renewal, landlord_id, payment_date, amount, payment_method) ==
    IF is_renewal
    THEN << LedgerEntry(landlord_id, payment_date, "credit",
                        amount - Deduction(amount), payment_method,
                        NextCreatedAt + 1) >>
    ELSE << LedgerEntry(landlord_id, payment_date, "credit", amount,
                        payment_method, NextCreatedAt + 1) >>

\* the landlord_transactions rows one renewal writes, after its payment row
RenewLedgerEntries(is_renewal, landlord_id, payment_date, amount, payment_method) ==
    IF is_renewal
    THEN << LedgerEntry(landlord_id, payment_date, "credit", amount,
                        payment_method, NextCreatedAt + 1),
            LedgerEntry(landlord_id, payment_date, "debit",
                        Deduction(amount), "Automatic Deduction",
                        NextCreatedAt + 2) >>
    ELSE << LedgerEntry(landlord_id, payment_date, "credit", amount,
                        payment_method, NextCreatedAt + 1) >>

\* POST /properties/renew
renew_rent(tenant_id, new_start_date, new_end_date, amount, payment_method, payment_type, payment_date) ==
    /\ UNCHANGED <<txn, properties, units>>
    /\ IF ~TenantFound(tenant_id)
       THEN /\ resp' = Response("renew_rent", tenant_id, amount,
                                "Tenant not found")
            /\ UNCHANGED <<tenants, payments, ledger>>
       ELSE IF RentAmount(tenant_id) = NULL
       THEN \* float(None) raises; the handler rolls back and flashes the error
            /\ resp' = Response("renew_rent", tenant_id, amount, "Error")
            /\ UNCHANGED <<tenants, payments, ledger>>
       ELSE LET rent_amount == RentAmount(tenant_id)
                property_id == tenants[tenant_id].property_id
                landlord_id == properties[property_id].landlord_id
            IN  /\ tenants' = [tenants EXCEPT
                          ![tenant_id].lease_start_date = new_start_date,
                          ![tenant_id].lease_end_date = new_end_date]
                /\ payments' = Append(payments,
                       [tenant_id |-> tenant_id,
                        property_id |-> property_id,
                        unit_id |-> tenants[tenant_id].unit_id,
                        amount |-> amount,
                        payment_type |-> payment_type,
                        payment_method |-> payment_method,
                        payment_date |-> payment_date,
                        created_at |-> NextCreatedAt,
                        balance_due |-> RenewBalanceDue(payment_type, amount,
                                                        rent_amount),
                        credit |-> NULL,
                        debit |-> NULL])
                /\ ledger' = ledger \o RenewLedgerEntries(
                                 IsRenewal(tenant_id), landlord_id,
                                 payment_date, amount, payment_method)
                /\ resp' = Response("renew_rent", tenant_id, amount, "success")

(* ------------------------------ assign_tenant -------------------------- *)

\* COUNT(*) FROM property_units WHERE property_id = ?
TotalUnits(us, property_id) ==
    Cardinality({u \in UnitIds : us[u].property_id = property_id})

\* COUNT(*) FROM property_units WHERE property_id = ? AND status = "Occupied"
OccupiedUnits(us, property_id) ==
    Cardinality({u \in UnitIds : /\ us[u].property_id = property_id
                                 /\ us[u].status = "Occupied"})

\* TenantAssigned looking at the unit only
TenantAssigned_UnitOnly(tenant_id) ==
    tenants[tenant_id].unit_id # NULL

\* if tenant['property_id'] or tenant['unit_id']
TenantAssigned(tenant_id) ==
    \/ tenants[tenant_id].property_id # NULL
    \/ tenants[tenant_id].unit_id # NULL

\* int(unit['property_id']) != int(property_id) does not hold
UnitBelongs(unit_id, property_id) ==
    units[unit_id].property_id = property_id

\* UnitVacant with the status check lost
UnitVacant_Unchecked(unit_id) ==
    TRUE

\* unit['status'] != 'Vacant' does not hold
UnitVacant(unit_id) ==
    units[unit_id].status = "Vacant"

\* prop['status'] != 'Vacant' does not hold
PropertyVacant(property_id) ==
    properties[property_id].status = "Vacant"

\* AllUnitsOccupied counting the occupied units before the unit was updated
AllUnitsOccupied_Stale(us, property_id) ==
    /\ TotalUnits(us, property_id) # 0
    /\ TotalUnits(us, property_id) = OccupiedUnits(units, property_id)

\* if total_units and total_units == occupied_units
AllUnitsOccupied(us, property_id) ==
    /\ TotalUnits(us, property_id) # 0
    /\ TotalUnits(us, property_id) = OccupiedUnits(us, property_id)

\* POST /properties/assign-tenant
assign_tenant(tenant_id, property_id, unit_id) ==
    /\ UNCHANGED <<txn, payments, ledger>>
    /\ IF tenant_id \notin TenantIds
       THEN /\ resp' = RegistryResponse("assign_tenant", tenant_id,
                                          property_id, unit_id, "Tenant not found")
            /\ UNCHANGED <<tenants, properties, units>>
       ELSE IF TenantAssigned(tenant_id)
       THEN /\ resp' = RegistryResponse("assign_tenant", tenant_id,
                                          property_id, unit_id, "Tenant already assigned")
            /\ UNCHANGED <<tenants, properties, units>>
       ELSE IF unit_id # NULL
       THEN IF ~UnitBelongs(unit_id, property_id)
            THEN /\ resp' = RegistryResponse("assign_tenant", tenant_id,
                                          property_id, unit_id, "Unit does not belong to property")
                 /\ UNCHANGED <<tenants, properties, units>>
            ELSE IF ~UnitVacant(unit_id)
            THEN /\ resp' = RegistryResponse("assign_tenant", tenant_id,
                                          property_id, unit_id, "Unit is not available")
                 /\ UNCHANGED <<tenants, properties, units>>
            ELSE LET us == [units EXCEPT ![unit_id].status = "Occupied",
                                         ![unit_id].tenant_id = tenant_id]
                 IN  /\ tenants' = [tenants EXCEPT
                               ![tenant_id].property_id = property_id,
                               ![tenant_id].unit_id = unit_id]
                     /\ units' = us
                     /\ properties' =
                            IF AllUnitsOccupied(us, property_id)
                            THEN [properties EXCEPT
                                    ![property_id].status = "Occupied"]
                            ELSE properties
                     /\ resp' = RegistryResponse("assign_tenant", tenant_id,
                                          property_id, unit_id, "success")
       ELSE IF ~PropertyVacant(property_id)
            THEN /\ resp' = RegistryResponse("assign_tenant", tenant_id,
                                          property_id, unit_id, "Property is not available")
                 /\ UNCHANGED <<tenants, properties, units>>
            ELSE /\ tenants' = [tenants EXCEPT
                           ![tenant_id].property_id = property_id,
                           ![tenant_id].unit_id = NULL]
                 /\ properties' = [properties EXCEPT
                                     ![property_id].status = "Occupied"]
                 /\ UNCHANGED units
                 /\ resp' = RegistryResponse("assign_tenant", tenant_id,
                                          property_id, unit_id, "success")

(* -------------------------------- end_lease ---------------------------- *)

\* COUNT(*) FROM tenants WHERE property_id = ? AND id != ?
\* AND unit_id IS NOT NULL
OtherTenants(property_id, tenant_id) ==
    Cardinality({t \in TenantIds : /\ tenants[t].property_id = property_id
                                   /\ t # tenant_id
                                   /\ tenants[t].unit_id # NULL})

\* POST /tenants/end_lease/<tenant_id>
end_lease(tenant_id) ==
    /\ UNCHANGED <<txn, payments, ledger>>
    /\ IF tenant_id \notin TenantIds
       THEN /\ resp' = Response("end_lease", tenant_id, NULL,
                                "Tenant not found")
            /\ UNCHANGED <<tenants, properties, units>>
       ELSE LET property_id == tenants[tenant_id].property_id
                unit_id == tenants[tenant_id].unit_id
            IN  /\ units' = IF unit_id # NULL
                            THEN [units EXCEPT ![unit_id].status = "Vacant",
                                               ![unit_id].tenant_id = NULL]
                            ELSE units
                /\ properties' =
                       IF /\ property_id # NULL
                          /\ \/ unit_id = NULL
                             \/ OtherTenants(property_id, tenant_id) = 0
                       THEN [properties EXCEPT
                               ![property_id].status = "Vacant"]
                       ELSE properties
                /\ tenants' = [tenants EXCEPT
                                 ![tenant_id].property_id = NULL,
                                 ![tenant_id].unit_id = NULL]
                /\ resp' = Response("end_lease", tenant_id, NULL, "success")

(* -------------------------------- tenant_end --------------------------- *)

\* GET /tenants/end/<tenant_id>, the second handler that ends a lease
\* (the is_active flag it clears is not part of the model)
tenant_end(tenant_id) ==
    /\ UNCHANGED <<txn, payments, ledger>>
    /\ IF tenant_id \notin TenantIds
       THEN /\ resp' = Response("tenant_end", tenant_id, NULL,
                                "Tenant not found")
            /\ UNCHANGED <<tenants, properties, units>>
       ELSE LET property_id == tenants[tenant_id].property_id
                unit_id == tenants[tenant_id].unit_id
            IN  /\ units' = IF unit_id # NULL
                            THEN [units EXCEPT ![unit_id].status = "Vacant"]
                            ELSE units
                /\ properties' =
                       IF unit_id = NULL /\ property_id # NULL
                       THEN [properties EXCEPT
                               ![property_id].status = "Vacant"]
                       ELSE properties
                /\ tenants' = [tenants EXCEPT
                                 ![tenant_id].property_id = NULL,
                                 ![tenant_id].unit_id = NULL]
                /\ resp' = Response("tenant_end", tenant_id, NULL, "success")

(* --------------------------- landlord statements ------------------------ *)

\* a landlord id that no row of landlords carries
UnknownLandlord == 1 + Cardinality(LandlordIds)

RequestLandlordIds == LandlordIds \cup {UnknownLandlord}

\* the dates of the requests made while statements are built
StatementDates == {1, 2}

\* the dates after those of the renewals and manual transactions
LaterDates == StatementDates \ Dates

\* the amount of the requests made while statements are built
StatementAmounts == {AmountStep}

\* the amount field of the manual transactions made while statements are
\* built
StatementAmountRaws == {"10"}

\* request.form.get('type'): 'credit', 'debit', or nothing selected
TransactionTypes == {"credit", "debit", ""}

\* the answer of a handler of the landlord accounts
StatementResponse(op, landlord_id, start_date, end_date, transactions, balance, result) ==
    [NoResponse EXCEPT !.op = op, !.landlord_id = landlord_id,
                       !.start_date = start_date, !.end_date = end_date,
                       !.transactions = transactions, !.balance = balance,
                       !.result = result]

\* the answer of add_landlord_transaction to the form it was sent
EntryResponse(landlord_id, txn_type, amount_raw, result) ==
    [NoResponse EXCEPT !.op = "add_landlord_transaction",
                       !.landlord_id = landlord_id,
                       !.transaction_type = txn_type,
                       !.amount_raw = amount_raw, !.result = result]

\* float(amount_raw) for the strings it accepts among those the forms
\* carry; for any other string it raises ValueError
FloatOf == ("0" :> 0) @@ ("10" :> 10) @@ ("-10" :> (0 - 10))

\* POST /landlords/<landlord_id>/add-statement
add_landlord_transaction(landlord_id, date, txn_type, amount_raw, mode_of_payment) ==
    /\ UNCHANGED <<txn, tenants, properties, units, payments>>
    /\ IF landlord_id \notin LandlordIds
       THEN /\ resp' = EntryResponse(landlord_id, txn_type, amount_raw,
                                     "Landlord not found")
            /\ UNCHANGED ledger
       ELSE IF amount_raw \notin DOMAIN FloatOf
       THEN /\ resp' = EntryResponse(landlord_id, txn_type, amount_raw,
                                     "Enter a valid amount")
            /\ UNCHANGED ledger
       ELSE IF txn_type \notin {"credit", "debit"}
       THEN /\ resp' = EntryResponse(landlord_id, txn_type, amount_raw,
                                     "Select transaction type")
            /\ UNCHANGED ledger
       ELSE /\ ledger' = Append(ledger,
                             LedgerEntry(landlord_id, date, txn_type,
                                         FloatOf[amount_raw],
                                         mode_of_payment, NextCreatedAt))
            /\ resp' = EntryResponse(landlord_id, txn_type, amount_raw,
                                     "success")

\* the ids of `FROM payments p LEFT JOIN properties prop
\* ON p.property_id = prop.id WHERE prop.landlord_id = ?`
LandlordPaymentIds(landlord_id) ==
    {id \in 1..Len(payments) :
        /\ payments[id].property_id # NULL
        /\ properties[payments[id].property_id].landlord_id = landlord_id}

\* the ids of `FROM landlord_transactions lt WHERE lt.landlord_id = ?`
LandlordTransactionIds(landlord_id) ==
    {id \in 1..Len(ledger) : ledger[id].landlord_id = landlord_id}

\* the orders in which a SELECT without ORDER BY over a join can return the
\* rows ids: the query plan decides
FetchOrders(ids) ==
    {order \in [1..Cardinality(ids) -> ids] :
        \A i, j \in 1..Cardinality(ids) : i # j => order[i] # order[j]}

\* the rows ids as a scan of one table returns them: by rowid
RowidOrder(ids) ==
    CHOOSE order \in FetchOrders(ids) :
        \A i, j \in 1..Cardinality(ids) : i < j => order[i] < order[j]

\* the line landlord_account_detail makes of a payment row
PaymentLine(id) ==
    [date |-> payments[id].payment_date,
     mode_of_payment |-> payments[id].payment_method,
     credit |-> payments[id].amount, debit |-> 0,
     source |-> "payment", meta_id |-> id]

\* the line landlord_account_detail makes of a landlord_transactions row
ManualLine(id) ==
    [date |-> ledger[id].date,
     mode_of_payment |-> ledger[id].payment_method,
     credit |-> IF ledger[id].transaction_type = "credit"
                THEN ledger[id].amount ELSE 0,
     debit |-> IF ledger[id].transaction_type = "credit"
               THEN 0 ELSE ledger[id].amount,
     source |-> "manual", meta_id |-> id]

\* merged after the two loops: the payments, then the manual transactions
Merged(payment_order, manual_order) ==
    [i \in 1..Len(payment_order) |-> PaymentLine(payment_order[i])]
      \o [i \in 1..Len(manual_order) |-> ManualLine(manual_order[i])]

\* tx put behind the lines of sorted that are not later than it
InsertByDate(sorted, tx) ==
    LET k == Cardinality({i \in 1..Len(sorted) : sorted[i].date <= tx.date})
    IN  SubSeq(sorted, 1, k) \o <<tx>> \o SubSeq(sorted, k + 1, Len(sorted))

\* merged.sort(key=lambda x: x['date'] or ''): a stable sort
RECURSIVE SortByDate(_)
SortByDate(merged) ==
    IF merged = << >>
    THEN << >>
    ELSE InsertByDate(SortByDate(SubSeq(merged, 1, Len(merged) - 1)),
                      merged[Len(merged)])

\* RunningBalance adding the credits only
RECURSIVE RunningBalance_CreditsOnly(_, _)
RunningBalance_CreditsOnly(merged, i) ==
    IF i = 0
    THEN 0
    ELSE RunningBalance_CreditsOnly(merged, i - 1) + merged[i].credit

\* balance after the loop has added (tx['credit'] or 0) - (tx['debit'] or 0)
\* for the first i lines
RECURSIVE RunningBalance(_, _)
RunningBalance(merged, i) ==
    IF i = 0
    THEN 0
    ELSE RunningBalance(merged, i - 1) + merged[i].credit - merged[i].debit

\* detailed: the lines with their number and the balance after them
Detailed(merged) ==
    [i \in 1..Len(merged) |->
        [sn |-> i, date |-> merged[i].date,
         mode_of_payment |-> merged[i].mode_of_payment,
         credit |-> merged[i].credit, debit |-> merged[i].debit,
         balance |-> RunningBalance(merged, i),
         source |-> merged[i].source, meta_id |-> merged[i].meta_id]]

\* GET /landlords/<landlord_id>/account-statement, the handler registered
\* first for the URL
landlord_account_detail(landlord_id) ==
    /\ UNCHANGED <<txn, tenants, properties, units, payments, ledger>>
    /\ IF landlord_id \notin LandlordIds
       THEN resp' = StatementResponse("landlord_account_detail", landlord_id,
                        NULL, NULL, << >>, NULL, "Landlord not found")
       ELSE \E payment_order \in FetchOrders(LandlordPaymentIds(landlord_id)) :
              LET manual_order ==
                      RowidOrder(LandlordTransactionIds(landlord_id))
                  merged == SortByDate(Merged(payment_order, manual_order))
              IN  resp' = StatementResponse("landlord_account_detail",
                              landlord_id, NULL, NULL, Detailed(merged),
                              RunningBalance(merged, Len(merged)), "success")

\* start_date of the query string; NULL when the argument is empty
StartDates == {NULL, 2}

\* end_date of the query string; NULL when the argument is empty
EndDates == {NULL, 1}

\* AND date(p.payment_date) >= date(?) AND date(p.payment_date) <= date(?)
InRange(date, start_date, end_date) ==
    /\ start_date # NULL => date >= start_date
    /\ end_date # NULL => date <= end_date

\* ORDER BY date(p.payment_date) ASC, p.created_at ASC
ViewOrder(ids) ==
    CHOOSE order \in FetchOrders(ids) :
        \A i, j \in 1..Cardinality(ids) :
            i < j => \/ payments[order[i]].payment_date
                          < payments[order[j]].payment_date
                     \/ /\ payments[order[i]].payment_date
                             = payments[order[j]].payment_date
                        /\ payments[order[i]].created_at
                             < payments[order[j]].created_at

\* the rows of landlord_account_view: payments only, debit 0.0
ViewRows(order) ==
    [i \in 1..Len(order) |->
        [date |-> payments[order[i]].payment_date,
         mode_of_payment |-> payments[order[i]].payment_method,
         credit |-> payments[order[i]].amount, debit |-> 0]]

\* transactions of landlord_account_view
ViewTransactions(rows) ==
    [i \in 1..Len(rows) |->
        [sn |-> i, date |-> rows[i].date,
         payment_method |-> rows[i].mode_of_payment,
         credit |-> rows[i].credit, debit |-> rows[i].debit,
         balance |-> RunningBalance(rows, i)]]

\* the handler with filters, registered second for the same URL
landlord_account_view(landlord_id, start_date, end_date) ==
    /\ UNCHANGED <<txn, tenants, properties, units, payments, ledger>>
    /\ IF landlord_id \notin LandlordIds
       THEN resp' = StatementResponse("landlord_account_view", landlord_id,
                        start_date, end_date, << >>, NULL,
                        "Landlord not found")
       ELSE LET ids == {id \in LandlordPaymentIds(landlord_id) :
                           InRange(payments[id].payment_date, start_date,
                                   end_date)}
                rows == ViewRows(ViewOrder(ids))
            IN  resp' = StatementResponse("landlord_account_view",
                            landlord_id, start_date, end_date,
                            ViewTransactions(rows), NULL, "success")

(* -------------------------------- dashboard ---------------------------- *)

\* SUM(amount) over the rows ids of a table
RECURSIVE SumAmount(_, _)
SumAmount(rows, ids) ==
    IF ids = {}
    THEN 0
    ELSE LET id == CHOOSE x \in ids : TRUE
         IN  rows[id].amount + SumAmount(rows, ids \ {id})

\* COALESCE((SELECT SUM(p.amount) ... WHERE pr.landlord_id = l.id), 0.0)
PaymentsTotal(landlord_id) ==
    SumAmount(payments, LandlordPaymentIds(landlord_id))

\* SUM(CASE WHEN lt.transaction_type = 'credit' THEN lt.amount ELSE 0 END)
ManualCredits(landlord_id) ==
    SumAmount(ledger, {id \in LandlordTransactionIds(landlord_id) :
                           ledger[id].transaction_type = "credit"})

\* ManualDebits with the CASE lost: every transaction counts as a debit
ManualDebits_AllTypes(landlord_id) ==
    SumAmount(ledger, LandlordTransactionIds(landlord_id))

\* SUM(CASE WHEN lt.transaction_type = 'debit' THEN lt.amount ELSE 0 END)
ManualDebits(landlord_id) ==
    SumAmount(ledger, {id \in LandlordTransactionIds(landlord_id) :
                           ledger[id].transaction_type = "debit"})

\* general_balance after the loop over general_rows
RECURSIVE GeneralBalance(_)
GeneralBalance(landlord_ids) ==
    IF landlord_ids = {}
    THEN 0
    ELSE LET l == CHOOSE x \in landlord_ids : TRUE
         IN  PaymentsTotal(l) + ManualCredits(l) - ManualDebits(l)
               + GeneralBalance(landlord_ids \ {l})

\* GET /dashboard, the general account part
dashboard ==
    /\ UNCHANGED <<txn, tenants, properties, units, payments, ledger>>
    /\ resp' = StatementResponse("dashboard", NULL, NULL, NULL, << >>,
                                 GeneralBalance(LandlordIds), "success")

(* ---------------------------- specification ---------------------------- *)

\* one request to add_payment
AddPayment ==
    \E tenant_id \in RequestTenantIds, amount \in Amounts,
       payment_method \in PaymentMethods, payment_date \in Dates :
        add_payment(tenant_id, amount, payment_method, payment_date)

\* one request to renew_rent
RenewRent ==
    \E tenant_id \in RequestTenantIds, new_start_date \in LeaseDates,
       new_end_date \in LeaseDates, amount \in Amounts,
       payment_method \in PaymentMethods,
       payment_type \in PaymentTypeHints, payment_date \in Dates :
        renew_rent(tenant_id, new_start_date, new_end_date, amount,
                   payment_method, payment_type, payment_date)

\* one request to assign_tenant
AssignTenant ==
    \E tenant_id \in RequestTenantIds, property_id \in PropertyIds,
       unit_id \in UnitIds \cup {NULL} :
        assign_tenant(tenant_id, property_id, unit_id)

\* one request to end_lease
EndLease == \E tenant_id \in RequestTenantIds : end_lease(tenant_id)

\* one request to tenant_end
TenantEnd == \E tenant_id \in RequestTenantIds : tenant_end(tenant_id)

\* The rent ledger engine over a fixed registry.
Next ==
    \/ Len(payments) < MaxPayments /\ AddPayment
    \/ Len(payments) < MaxPayments /\ RenewRent

Spec == Init /\ [][Next]_vars

\* the amount of the payments made while the registry changes
RegistryAmounts == {AmountStep}

\* one request to add_payment, of a registry amount
AddRegistryPayment ==
    \E tenant_id \in RequestTenantIds, amount \in RegistryAmounts,
       payment_method \in PaymentMethods, payment_date \in Dates :
        add_payment(tenant_id, amount, payment_method, payment_date)

\* one request to renew_rent, of a registry amount
RenewRegistryRent ==
    \E tenant_id \in RequestTenantIds, new_start_date \in LeaseDates,
       new_end_date \in LeaseDates, amount \in RegistryAmounts,
       payment_method \in PaymentMethods,
       payment_type \in PaymentTypeHints, payment_date \in Dates :
        renew_rent(tenant_id, new_start_date, new_end_date, amount,
                   payment_method, payment_type, payment_date)

\* The tenancy registry together with the ledger engine.
NextRegistry ==
    \/ AddRegistryPayment /\ Len(payments') <= MaxRegistryPayments
    \/ RenewRegistryRent /\ Len(payments') <= MaxRegistryPayments
    \/ AssignTenant
    \/ EndLease

SpecRegistry == InitRegistry /\ [][NextRegistry]_vars

\* The registry with both handlers that end a lease.
NextLeaseEnd ==
    \/ NextRegistry
    \/ TenantEnd

SpecLeaseEnd == InitRegistry /\ [][NextLeaseEnd]_vars

\* one request to add_payment while statements are built, dated after the
\* renewals and the manual transactions
StatementPayment ==
    \E tenant_id \in TenantIds, amount \in StatementAmounts,
       payment_method \in PaymentMethods, payment_date \in LaterDates :
        add_payment(tenant_id, amount, payment_method, payment_date)

\* one request to renew_rent while statements are built
StatementRenewal ==
    \E tenant_id \in TenantIds, new_start_date \in LeaseDates,
       new_end_date \in LeaseDates, amount \in StatementAmounts,
       payment_method \in PaymentMethods, payment_date \in Dates :
        renew_rent(tenant_id, new_start_date, new_end_date, amount,
                   payment_method, "Full", payment_date)

\* one request to add_landlord_transaction
AddLandlordTransaction ==
    \E landlord_id \in RequestLandlordIds, date \in Dates,
       txn_type \in TransactionTypes, amount_raw \in StatementAmountRaws,
       mode_of_payment \in PaymentMethods :
        add_landlord_transaction(landlord_id, date, txn_type, amount_raw,
                                 mode_of_payment)

\* one request for the account statement of a landlord
LandlordAccountDetail ==
    \E landlord_id \in RequestLandlordIds :
        landlord_account_detail(landlord_id)

\* one request for the filtered account statement of a landlord
LandlordAccountView ==
    \E landlord_id \in RequestLandlordIds, start_date \in StartDates,
       end_date \in EndDates :
        landlord_account_view(landlord_id, start_date, end_date)

\* one request for the dashboard
Dashboard == dashboard

\* The statement builder over the rows the ledger engine and the manual
\* transactions leave.
NextStatement ==
    \/ StatementPayment /\ Len(payments') + Len(ledger') <= MaxStatementRows
    \/ StatementRenewal /\ Len(payments') + Len(ledger') <= MaxStatementRows
    \/ AddLandlordTransaction
         /\ Len(payments') + Len(ledger') <= MaxStatementRows
    \/ LandlordAccountDetail
    \/ LandlordAccountView
    \/ Dashboard

SpecStatement == Init /\ [][NextStatement]_vars

\* the amount field of a manual transaction: zero, positive, negative, or
\* not a number
EntryAmountRaws == {"0", "10", "-10", "abc"}

\* the amounts of the renewals that write ledger entries
EntryAmounts == {0, AmountStep}

\* one request to add_landlord_transaction with any amount field
ManualEntry ==
    \E landlord_id \in RequestLandlordIds, date \in Dates,
       txn_type \in TransactionTypes, amount_raw \in EntryAmountRaws,
       mode_of_payment \in PaymentMethods :
        add_landlord_transaction(landlord_id, date, txn_type, amount_raw,
                                 mode_of_payment)

\* one request to renew_rent with a zero or positive amount
EntryRenewal ==
    \E tenant_id \in TenantIds, new_start_date \in LeaseDates,
       new_end_date \in LeaseDates, amount \in EntryAmounts,
       payment_method \in PaymentMethods,
       payment_type \in PaymentTypeHints, payment_date \in Dates :
        renew_rent(tenant_id, new_start_date, new_end_date, amount,
                   payment_method, payment_type, payment_date)

\* The two writers of landlord_transactions.
NextLedgerEntries ==
    \/ ManualEntry /\ Len(payments') + Len(ledger') <= MaxStatementRows
    \/ EntryRenewal /\ Len(payments') + Len(ledger') <= MaxStatementRows

SpecLedgerEntries == Init /\ [][NextLedgerEntries]_vars

\* Requests to add_payment only: the cycles are opened, paid and closed by
\* record_payment alone.
NextPayments ==
    \/ Len(payments) < MaxPayments /\ AddPayment

SpecPayments == Init /\ [][NextPayments]_vars

(* ---------------- add_payment, statement by statement ---------------- *)

\* Two requests to add_payment served at once. Each runs on its own
\* connection (sqlite3.connect with no option: rollback journal, deferred
\* BEGIN), so the statements of the two interleave and the file locks of
\* SQLite decide what each may do: a SELECT needs SHARED, denied while another
\* connection is PENDING; the INSERT needs RESERVED, held by one connection at
\* a time; COMMIT needs EXCLUSIVE, denied while another connection is SHARED.

\* the most payment rows and requests in progress, together
MaxConcurrentPayments == 4

\* the amounts of the concurrent requests
ConcurrentAmounts == {AmountStep, 2 * AmountStep}

\* the lock of a connection after a SELECT ended, with the SELECT outside any
\* transaction: nothing is kept
ReadLock_Autocommit ==
    "none"

\* the lock of a connection after a SELECT ended: inside BEGIN TRANSACTION the
\* SHARED lock stays until COMMIT or ROLLBACK
ReadLock ==
    "shared"

OtherSessions(s) == Sessions \ {s}

\* SHARED is refused
ReadBlocked(s) == \E o \in OtherSessions(s) : txn[o].lock = "pending"

\* RESERVED is refused
WriteBlocked(s) == \E o \in OtherSessions(s) : txn[o].lock \in {"reserved", "pending"}

\* EXCLUSIVE is refused
CommitBlocked(s) == \E o \in OtherSessions(s) : txn[o].lock = "shared"

\* the connection after conn.rollback() or conn.commit() and conn.close():
\* no lock, no pending rows; what the request read and answered is kept
Closed(s, result) ==
    [txn[s] EXCEPT !.pc = "idle", !.lock = "none", !.rows = << >>,
                   !.result = result]

\* the lock of connection s once a SELECT of its transaction ended
AfterSelect(s) == IF txn[s].lock = "none" THEN ReadLock ELSE txn[s].lock

\* conn = get_db_connection(); conn.execute("BEGIN TRANSACTION")
begin_transaction(s, tenant_id, amount, payment_method, payment_date) ==
    /\ UNCHANGED <<tenants, properties, units, payments, ledger, resp>>
    /\ txn[s].pc = "idle"
    /\ txn' = [txn EXCEPT ![s] =
                  [NoTransaction EXCEPT !.pc = "begun",
                                        !.tenant_id = tenant_id,
                                        !.amount = amount,
                                        !.payment_method = payment_method,
                                        !.payment_date = payment_date]]

\* tenant = conn.execute(SELECT ... FROM tenants ...).fetchone()
select_tenant(s) ==
    /\ UNCHANGED <<tenants, properties, units, payments, ledger, resp>>
    /\ txn[s].pc = "begun"
    /\ ~ReadBlocked(s)
    /\ IF ~TenantFound(txn[s].tenant_id)
       THEN txn' = [txn EXCEPT ![s] = Closed(s, "Tenant not found")]
       ELSE IF RentAmount(txn[s].tenant_id) = NULL
       THEN txn' = [txn EXCEPT ![s] = Closed(s, "Error")]
       ELSE txn' = [txn EXCEPT ![s].pc = "tenant",
                               ![s].lock = AfterSelect(s),
                               ![s].rent_amount = RentAmount(txn[s].tenant_id)]

\* outstanding = conn.execute(SELECT SUM(balance_due) ...).fetchone()
select_outstanding(s) ==
    /\ UNCHANGED <<tenants, properties, units, payments, ledger, resp>>
    /\ txn[s].pc = "tenant"
    /\ ~ReadBlocked(s)
    /\ txn' = [txn EXCEPT ![s].pc = "outstanding",
                          ![s].lock = AfterSelect(s),
                          ![s].total_outstanding =
                              TotalOutstanding(txn[s].tenant_id)]

\* completed_cycles = conn.execute(SELECT COUNT(*) ...).fetchone()
select_completed_cycles(s) ==
    /\ UNCHANGED <<tenants, properties, units, payments, ledger, resp>>
    /\ txn[s].pc = "outstanding"
    /\ ~ReadBlocked(s)
    /\ txn' = [txn EXCEPT ![s].pc = "classified",
                          ![s].lock = AfterSelect(s),
                          ![s].is_renewal = IsRenewal(txn[s].tenant_id)]

\* the row of the INSERT, from what the connection read
SessionRow(s) ==
    LET t == txn[s]
        balance_due == BalanceDue(t.amount, t.total_outstanding, t.rent_amount)
    IN  [tenant_id |-> t.tenant_id,
         property_id |-> tenants[t.tenant_id].property_id,
         unit_id |-> tenants[t.tenant_id].unit_id,
         amount |-> t.amount,
         payment_type |-> PaymentType(t.amount, t.total_outstanding,
                                      t.rent_amount),
         payment_method |-> t.payment_method,
         payment_date |-> t.payment_date,
         created_at |-> NextCreatedAt,
         balance_due |-> balance_due,
         credit |-> CreditAmount(t.amount, balance_due, t.is_renewal,
                                 t.total_outstanding),
         debit |-> DebitAmount(t.amount, balance_due, t.is_renewal,
                               t.total_outstanding)]

\* the validation, the INSERT and the clearing UPDATE: the rows are written
\* to the connection's own pages, which no other connection reads
insert_payment(s) ==
    /\ UNCHANGED <<tenants, properties, units, payments, ledger, resp>>
    /\ txn[s].pc = "classified"
    /\ LET t == txn[s]
           row == SessionRow(s)
           inserted == Append(payments, row)
       IN  IF AmountExceeds(t.amount, t.total_outstanding, t.rent_amount)
           THEN txn' = [txn EXCEPT ![s] =
                           Closed(s, IF t.total_outstanding > 0
                                     THEN "exceeds outstanding balance"
                                     ELSE "exceeds rent amount")]
           ELSE /\ ~WriteBlocked(s)
                /\ txn' = [txn EXCEPT
                       ![s].pc = "written",
                       ![s].lock = "reserved",
                       ![s].rows =
                           IF t.total_outstanding > 0 /\ row.balance_due = 0
                           THEN ClearOldPartials(inserted, t.tenant_id,
                                                 Len(inserted))
                           ELSE inserted]

\* conn.commit(): the rows of the connection become the table, or the
\* connection waits as PENDING for the readers to leave
commit(s) ==
    /\ UNCHANGED <<tenants, properties, units, ledger, resp>>
    /\ txn[s].pc = "written"
    /\ IF CommitBlocked(s)
       THEN /\ txn[s].lock = "reserved"
            /\ txn' = [txn EXCEPT ![s].lock = "pending"]
            /\ UNCHANGED payments
       ELSE /\ payments' = txn[s].rows
            /\ txn' = [txn EXCEPT ![s] = Closed(s, "success")]

\* sqlite3.OperationalError: database is locked, raised by the statement that
\* was refused its lock; `except Exception` rolls back and answers 500
database_locked(s) ==
    /\ UNCHANGED <<tenants, properties, units, payments, ledger, resp>>
    /\ \/ txn[s].pc \in {"begun", "tenant", "outstanding"} /\ ReadBlocked(s)
       \/ /\ txn[s].pc = "classified"
          /\ ~AmountExceeds(txn[s].amount, txn[s].total_outstanding,
                            txn[s].rent_amount)
          /\ WriteBlocked(s)
       \/ txn[s].pc = "written" /\ CommitBlocked(s)
    /\ txn' = [txn EXCEPT ![s] = Closed(s, "database is locked")]

\* the requests in progress
InProgress == Cardinality({s \in Sessions : txn[s].pc # "idle"})

BeginTransaction ==
    \E s \in Sessions, tenant_id \in RequestTenantIds,
       amount \in ConcurrentAmounts, payment_method \in PaymentMethods,
       payment_date \in Dates :
        /\ Len(payments) + InProgress < MaxConcurrentPayments
        /\ begin_transaction(s, tenant_id, amount, payment_method,
                             payment_date)

SelectTenant == \E s \in Sessions : select_tenant(s)

SelectOutstanding == \E s \in Sessions : select_outstanding(s)

SelectCompletedCycles == \E s \in Sessions : select_completed_cycles(s)

InsertPayment == \E s \in Sessions : insert_payment(s)

Commit == \E s \in Sessions : commit(s)

DatabaseLocked == \E s \in Sessions : database_locked(s)

\* Two connections serving add_payment, their statements in any order.
NextConcurrent ==
    \/ BeginTransaction
    \/ SelectTenant
    \/ SelectOutstanding
    \/ SelectCompletedCycles
    \/ InsertPayment
    \/ Commit
    \/ DatabaseLocked

SpecConcurrent == Init /\ [][NextConcurrent]_vars

(* ------------------------------ properties ----------------------------- *)

\* the request of the step and the row the step inserted
Req == resp'

Inserted == Len(payments') = Len(payments) + 1

NewRow == payments'[Len(payments')]

LastRow == payments[Len(payments)]

Max0(x) == IF x > 0 THEN x ELSE 0

\* the tenant of the request is assigned and has a rent on entry
Payable(tenant_id) == TenantFound(tenant_id) /\ RentAmount(tenant_id) # NULL

\* total_outstanding when it is positive, otherwise rent_due
Ceiling(tenant_id) ==
    IF TotalOutstanding(tenant_id) > 0
    THEN TotalOutstanding(tenant_id)
    ELSE RentAmount(tenant_id)

AcceptedPayment == Req.op = "add_payment" /\ Req.result = "success"

\* C1: add_payment answers an amount above the applicable ceiling
\* (total_outstanding when it is positive, otherwise rent_due) with an
\* error, and that step leaves the payments and the ledger as they were.
C1_RejectsAboveCeiling ==
    [][(/\ Req.op = "add_payment"
        /\ Payable(Req.tenant_id)
        /\ Req.amount > Ceiling(Req.tenant_id))
       => (/\ Req.result \in {"exceeds outstanding balance",
                              "exceeds rent amount"}
           /\ payments' = payments
           /\ ledger' = ledger)]_vars

\* Scenario E: an amount above a positive outstanding balance was rejected
C1_Witness ==
    /\ resp.op = "add_payment"
    /\ resp.result = "exceeds outstanding balance"
    /\ TotalOutstanding(resp.tenant_id) > 0
    /\ resp.amount > TotalOutstanding(resp.tenant_id)

\* C2: an accepted add_payment entered with total_outstanding = 0 and
\* amount >= rent_due inserts a row with payment_type Full and balance_due 0.
C2_FullWhenRentCovered ==
    [][(/\ AcceptedPayment
        /\ TotalOutstanding(Req.tenant_id) = 0
        /\ Req.amount >= RentAmount(Req.tenant_id))
       => (/\ Inserted
           /\ NewRow.payment_type = "Full"
           /\ NewRow.balance_due = 0)]_vars

\* Scenario A: the first payment of a tenant pays the whole rent
C2_Witness ==
    /\ resp.op = "add_payment"
    /\ resp.result = "success"
    /\ Len(payments) = 1
    /\ payments[1].amount = RentAmount(payments[1].tenant_id)
    /\ payments[1].payment_type = "Full"

\* C3: add_payment entered with no outstanding balance and amount < rent_due
\* inserts a row with payment_type Partial and balance_due = rent_due -
\* amount, which is positive.
C3_PartialBelowRent ==
    [][(/\ Req.op = "add_payment"
        /\ Payable(Req.tenant_id)
        /\ TotalOutstanding(Req.tenant_id) = 0
        /\ Req.amount < RentAmount(Req.tenant_id))
       => (/\ Req.result = "success"
           /\ Inserted
           /\ NewRow.payment_type = "Partial"
           /\ NewRow.balance_due = RentAmount(Req.tenant_id) - Req.amount
           /\ NewRow.balance_due > 0)]_vars

\* Scenario B: the first payment of a tenant pays part of the rent
C3_Witness ==
    /\ resp.op = "add_payment"
    /\ resp.result = "success"
    /\ Len(payments) = 1
    /\ payments[1].amount < RentAmount(payments[1].tenant_id)
    /\ payments[1].payment_type = "Partial"
    /\ payments[1].balance_due > 0

\* C4: an accepted add_payment entered with total_outstanding > 0 inserts a
\* row that is Full iff amount >= total_outstanding and whose balance_due is
\* max(0, total_outstanding - amount).
C4_CompletingPartial ==
    [][(/\ AcceptedPayment
        /\ TotalOutstanding(Req.tenant_id) > 0)
       => (/\ Inserted
           /\ (NewRow.payment_type = "Full")
                <=> (Req.amount >= TotalOutstanding(Req.tenant_id))
           /\ NewRow.payment_type \in {"Full", "Partial"}
           /\ NewRow.balance_due
                = Max0(TotalOutstanding(Req.tenant_id) - Req.amount))]_vars

\* a third instalment was accepted while the first two rows were open, and
\* it left a balance
C4_Witness ==
    /\ resp.op = "add_payment"
    /\ resp.result = "success"
    /\ Len(payments) = 3
    /\ \A i \in 1..3 : /\ payments[i].tenant_id = resp.tenant_id
                       /\ payments[i].credit = 0
                       /\ payments[i].balance_due > 0

\* C5: an add_payment that closes a cycle for a tenant with a completed
\* cycle and total_outstanding = 0 on entry stores debit = 0.10 x amount,
\* credit = 0.90 x amount and credit + debit = amount.
C5_RenewalSplit ==
    [][(/\ AcceptedPayment
        /\ Inserted
        /\ NewRow.balance_due = 0
        /\ IsRenewal(Req.tenant_id)
        /\ TotalOutstanding(Req.tenant_id) = 0)
       => (/\ 10 * NewRow.debit = Req.amount
           /\ 10 * NewRow.credit = 9 * Req.amount
           /\ NewRow.credit + NewRow.debit = Req.amount)]_vars

\* a second full payment of a tenant carries the fee
C5_Witness ==
    /\ resp.op = "add_payment"
    /\ resp.result = "success"
    /\ Len(payments) >= 2
    /\ LastRow.balance_due = 0
    /\ LastRow.debit > 0

\* C6: an add_payment that closes a cycle for a tenant without a completed
\* cycle, or that completes a partial (total_outstanding > 0 on entry),
\* stores credit = amount and debit = 0.
C6_NoFeeSplit ==
    [][(/\ AcceptedPayment
        /\ Inserted
        /\ NewRow.balance_due = 0
        /\ \/ ~IsRenewal(Req.tenant_id)
           \/ TotalOutstanding(Req.tenant_id) > 0)
       => (/\ NewRow.credit = Req.amount
           /\ NewRow.debit = 0)]_vars

\* a tenant with a completed first cycle paid the next cycle in two
\* instalments; the completing one carries no fee
C6_Witness ==
    /\ resp.op = "add_payment"
    /\ resp.result = "success"
    /\ Len(payments) = 3
    /\ \A i \in 1..3 : payments[i].tenant_id = resp.tenant_id
    /\ payments[1].credit = payments[1].amount
    /\ payments[2].credit = 0
    /\ payments[3].amount < RentAmount(resp.tenant_id)
    /\ payments[3].balance_due = 0
    /\ payments[3].credit = payments[3].amount
    /\ payments[3].debit = 0

\* C7: an add_payment that leaves balance_due > 0 stores credit = 0 and
\* debit = 0 on the new row.
C7_PartialNoSplit ==
    [][(/\ AcceptedPayment
        /\ Inserted
        /\ NewRow.balance_due > 0)
       => (/\ NewRow.credit = 0
           /\ NewRow.debit = 0)]_vars

\* a tenant with a completed cycle paid part of the next one
C7_Witness ==
    /\ resp.op = "add_payment"
    /\ resp.result = "success"
    /\ Len(payments) = 2
    /\ payments[1].tenant_id = payments[2].tenant_id
    /\ payments[1].payment_type = "Full"
    /\ payments[1].balance_due = 0
    /\ payments[2].balance_due > 0
    /\ payments[2].credit = 0
    /\ payments[2].debit = 0

\* rows of a tenant with balance_due > 0
OpenRows(tenant_id) ==
    {i \in DOMAIN payments : /\ payments[i].tenant_id = tenant_id
                             /\ payments[i].balance_due > 0}

\* C8: in every reachable state each tenant has at most one payment row
\* with balance_due > 0.
C8_AtMostOneOpenRow ==
    \A tenant_id \in TenantIds : Cardinality(OpenRows(tenant_id)) <= 1

\* C9: in every reachable state every payment row has balance_due = 0 iff
\* payment_type = Full.
C9_ZeroBalanceIffFull ==
    \A i \in DOMAIN payments :
        (payments[i].balance_due = 0) <=> (payments[i].payment_type = "Full")

\* C10: every stored payment row has balance_due >= 0, and the row renew_rent
\* inserts has balance_due = max(0, rent_due - amount) when the hint is
\* Partial and 0 otherwise.
C10_BalanceNeverNegative ==
    [][/\ \A i \in DOMAIN payments' : payments'[i].balance_due >= 0
       /\ (Req.op = "renew_rent" /\ Req.result = "success")
          => (/\ Inserted
              /\ NewRow.balance_due
                   = IF NewRow.payment_type = "Partial"
                     THEN Max0(RentAmount(Req.tenant_id) - Req.amount)
                     ELSE 0)]_vars

\* the landlord_transactions rows the step appended
NewLedger == SubSeq(ledger', Len(ledger) + 1, Len(ledger'))

\* C11: a successful renew_rent appends, for a tenant with a Full row of
\* balance 0, exactly two ledger entries, a credit of the amount and a debit
\* of 0.10 x amount, whatever the payment type; for any other tenant exactly
\* one entry, a credit of the amount.
C11_RenewLedgerEntries ==
    [][(Req.op = "renew_rent" /\ Req.result = "success")
       => (/\ Len(ledger') >= Len(ledger)
           /\ SubSeq(ledger', 1, Len(ledger)) = ledger
           /\ IF IsRenewal(Req.tenant_id)
              THEN /\ Len(NewLedger) = 2
                   /\ NewLedger[1].transaction_type = "credit"
                   /\ NewLedger[1].amount = Req.amount
                   /\ NewLedger[2].transaction_type = "debit"
                   /\ 10 * NewLedger[2].amount = Req.amount
              ELSE /\ Len(NewLedger) = 1
                   /\ NewLedger[1].transaction_type = "credit"
                   /\ NewLedger[1].amount = Req.amount)]_vars

\* a Partial renewal of a tenant with a completed cycle wrote the fee debit
C11_Witness ==
    /\ resp.op = "renew_rent"
    /\ resp.result = "success"
    /\ Len(payments) >= 2
    /\ LastRow.payment_type = "Partial"
    /\ LastRow.balance_due > 0
    /\ Len(ledger) >= 2
    /\ ledger[Len(ledger)].transaction_type = "debit"
    /\ ledger[Len(ledger)].created_at = LastRow.created_at + 2
    /\ 10 * ledger[Len(ledger)].amount = resp.amount

\* the tenant of the request does not exist, or has neither property nor unit
Unassigned(tenant_id) ==
    \/ tenant_id \notin TenantIds
    \/ /\ tenants[tenant_id].property_id = NULL
       /\ tenants[tenant_id].unit_id = NULL

\* C12: add_payment for a tenant that does not exist or is assigned to no
\* property and no unit answers "Tenant not found" and leaves payments, ledger
\* entries, tenants, units and properties as they were.
C12_UnknownTenantRejected ==
    [][(Req.op = "add_payment" /\ Unassigned(Req.tenant_id))
         => /\ Req.result = "Tenant not found"
            /\ UNCHANGED <<payments, ledger, tenants, units, properties>>]_vars

\* an existing tenant whose lease was ended was refused a payment while the
\* tables held a payment row and a ledger entry
C12_Witness ==
    /\ resp.op = "add_payment"
    /\ resp.result = "Tenant not found"
    /\ resp.tenant_id \in TenantIds
    /\ tenants[resp.tenant_id].property_id = NULL
    /\ Len(payments) > 0
    /\ Len(ledger) > 0

\* a lease-ending handler answered success for a tenant that had a place
LeaseEnded ==
    /\ Req.op \in {"end_lease", "tenant_end"}
    /\ Req.result = "success"
    /\ tenants[Req.tenant_id].property_id # NULL

\* C13: after a lease is ended with success, the tenant's unit (if it had one)
\* is Vacant and references no tenant, otherwise its property is Vacant; the
\* tenant's property_id and unit_id are NULL; the tenant record still exists;
\* payment rows and ledger entries are as before.
C13_LeaseEndReleasesPlace ==
    [][LeaseEnded =>
         LET t == Req.tenant_id
             u == tenants[t].unit_id
             p == tenants[t].property_id
         IN  /\ IF u # NULL
                THEN /\ units'[u].status = "Vacant"
                     /\ units'[u].tenant_id = NULL
                ELSE properties'[p].status = "Vacant"
             /\ tenants'[t].property_id = NULL
             /\ tenants'[t].unit_id = NULL
             /\ t \in DOMAIN tenants'
             /\ UNCHANGED <<payments, ledger>>]_vars

\* the place an assign_tenant request names is not Vacant
TargetTaken ==
    IF Req.unit_id # NULL
    THEN units[Req.unit_id].status # "Vacant"
    ELSE properties[Req.property_id].status # "Vacant"

\* C14: assign_tenant to a unit or property whose status is not Vacant is
\* rejected, and tenants, units and properties are as before the request.
C14_TakenTargetRejected ==
    [][(Req.op = "assign_tenant" /\ TargetTaken)
         => /\ Req.result # "success"
            /\ UNCHANGED <<tenants, units, properties>>]_vars

\* an unassigned tenant was refused an Occupied unit of the named property
C14_Witness ==
    /\ resp.op = "assign_tenant"
    /\ resp.result = "Unit is not available"
    /\ units[resp.unit_id].status = "Occupied"
    /\ units[resp.unit_id].tenant_id # resp.tenant_id
    /\ tenants[resp.tenant_id].property_id = NULL

\* the tenant of an assign_tenant request already has a property or a unit
AlreadyPlaced ==
    /\ Req.tenant_id \in TenantIds
    /\ \/ tenants[Req.tenant_id].property_id # NULL
       \/ tenants[Req.tenant_id].unit_id # NULL

\* the unit of an assign_tenant request is a unit of another property
ForeignUnit ==
    /\ Req.unit_id # NULL
    /\ units[Req.unit_id].property_id # Req.property_id

\* C15: assign_tenant is rejected with no state change when the tenant
\* already has a property or unit, and when the unit does not belong to the
\* property; every accepted assignment is of a tenant that had no place.
C15_PlacedOrForeignRejected ==
    [][Req.op = "assign_tenant"
         => /\ (AlreadyPlaced \/ ForeignUnit)
                  => /\ Req.result # "success"
                     /\ UNCHANGED <<tenants, units, properties>>
            /\ Req.result = "success"
                  => /\ tenants[Req.tenant_id].property_id = NULL
                     /\ tenants[Req.tenant_id].unit_id = NULL]_vars

\* a tenant living in a standalone property was refused a Vacant unit
C15_Witness ==
    /\ resp.op = "assign_tenant"
    /\ resp.result = "Tenant already assigned"
    /\ tenants[resp.tenant_id].property_id # NULL
    /\ tenants[resp.tenant_id].unit_id = NULL
    /\ resp.unit_id # NULL
    /\ units[resp.unit_id].property_id = resp.property_id
    /\ units[resp.unit_id].status = "Vacant"

\* every unit of the property is Occupied in the table us
EveryUnitOccupied(us, property_id) ==
    \A u \in UnitIds :
        us[u].property_id = property_id => us[u].status = "Occupied"

\* C16: after a successful assign_tenant to a unit, the unit is Occupied and
\* references the tenant, the tenant references the unit and its parent
\* property, and the parent property is set to Occupied exactly when all its
\* units are Occupied after the assignment; after a successful assignment to
\* a standalone property that property is Occupied.
C16_AssignOccupies ==
    [][(Req.op = "assign_tenant" /\ Req.result = "success")
         => LET t == Req.tenant_id
                u == Req.unit_id
            IN  IF u # NULL
                THEN LET p == units[u].property_id
                     IN  /\ units'[u].status = "Occupied"
                         /\ units'[u].tenant_id = t
                         /\ tenants'[t].unit_id = u
                         /\ tenants'[t].property_id = p
                         /\ IF EveryUnitOccupied(units', p)
                            THEN properties'[p].status = "Occupied"
                            ELSE properties'[p] = properties[p]
                ELSE /\ properties'[Req.property_id].status = "Occupied"
                     /\ tenants'[t].property_id = Req.property_id
                     /\ tenants'[t].unit_id = NULL]_vars

\* the assignment of the last Vacant unit promoted the parent property
C16_Witness ==
    /\ resp.op = "assign_tenant"
    /\ resp.result = "success"
    /\ resp.unit_id # NULL
    /\ EveryUnitOccupied(units, resp.property_id)
    /\ properties[resp.property_id].status = "Occupied"
    /\ \A t \in TenantIds : tenants[t].property_id = resp.property_id
                               => tenants[t].unit_id # NULL

(* ------------------------ statement properties ------------------------- *)

\* f[1] + ... + f[n]
RECURSIVE SumTo(_, _)
SumTo(f, n) ==
    IF n = 0 THEN 0 ELSE f[n] + SumTo(f, n - 1)

\* what the rows of the two tables give a landlord: every payment on its
\* properties and every credit entry, less every debit entry
LandlordNet(landlord_id) ==
    SumTo([id \in 1..Len(payments) |->
              IF /\ payments[id].property_id # NULL
                 /\ properties[payments[id].property_id].landlord_id
                      = landlord_id
              THEN payments[id].amount ELSE 0], Len(payments))
    + SumTo([id \in 1..Len(ledger) |->
                IF ledger[id].landlord_id # landlord_id THEN 0
                ELSE IF ledger[id].transaction_type = "credit"
                THEN ledger[id].amount
                ELSE IF ledger[id].transaction_type = "debit"
                THEN 0 - ledger[id].amount ELSE 0], Len(ledger))

\* a statement was returned by landlord_account_detail
StatementBuilt ==
    Req.op = "landlord_account_detail" /\ Req.result = "success"

\* created_at of the row behind a line of landlord_account_detail
CreatedAt(tx) ==
    IF tx.source = "payment"
    THEN payments[tx.meta_id].created_at
    ELSE ledger[tx.meta_id].created_at

\* C17: the statement holds the landlord's payment lines and ledger lines in
\* ascending date order, and two lines of the same date stand in the order
\* in which their rows were created, payment or ledger entry alike.
C17_DateThenCreationOrder ==
    [][StatementBuilt =>
         LET txs == Req.transactions
             l == Req.landlord_id
         IN  /\ {<<txs[i].source, txs[i].meta_id>> : i \in 1..Len(txs)}
                  = {<<"payment", id>> : id \in LandlordPaymentIds(l)}
                      \cup {<<"manual", id>> :
                               id \in LandlordTransactionIds(l)}
             /\ Len(txs) = Cardinality(LandlordPaymentIds(l))
                             + Cardinality(LandlordTransactionIds(l))
             /\ \A i, j \in 1..Len(txs) :
                    i < j => /\ txs[i].date <= txs[j].date
                             /\ txs[i].date = txs[j].date
                                  => CreatedAt(txs[i]) < CreatedAt(txs[j])]_vars

\* C18: the lines of a statement are numbered 1..N, each balance is the one
\* before it (0 before the first) plus the credit minus the debit of the
\* line, and the final balance is the sum of the credits minus the sum of
\* the debits, whatever the order of the lines.
C18_RunningBalance ==
    [][StatementBuilt =>
         LET txs == Req.transactions
             N == Len(txs)
         IN  /\ \A i \in 1..N :
                    /\ txs[i].sn = i
                    /\ txs[i].balance
                         = (IF i = 1 THEN 0 ELSE txs[i - 1].balance)
                             + txs[i].credit - txs[i].debit
             /\ Req.balance = SumTo([i \in 1..N |-> txs[i].credit], N)
                                - SumTo([i \in 1..N |-> txs[i].debit], N)
             /\ N > 0 => Req.balance = txs[N].balance
             /\ Req.balance = LandlordNet(Req.landlord_id)]_vars

\* a statement of three lines with a debit before its last line
C18_Witness ==
    /\ resp.op = "landlord_account_detail"
    /\ resp.result = "success"
    /\ Len(resp.transactions) = 3
    /\ \E i \in 1..2 : resp.transactions[i].debit > 0
    /\ \E i \in 1..3 : resp.transactions[i].source = "payment"
    /\ resp.balance # 0

\* the date lies in the inclusive range of the request
Within(date, start_date, end_date) ==
    /\ start_date = NULL \/ start_date <= date
    /\ end_date = NULL \/ date <= end_date

\* LandlordNet over the rows dated in the range
RangeNet(landlord_id, start_date, end_date) ==
    SumTo([id \in 1..Len(payments) |->
              IF /\ id \in LandlordPaymentIds(landlord_id)
                 /\ Within(payments[id].payment_date, start_date, end_date)
              THEN payments[id].amount ELSE 0], Len(payments))
    + SumTo([id \in 1..Len(ledger) |->
                IF \/ ledger[id].landlord_id # landlord_id
                   \/ ~Within(ledger[id].date, start_date, end_date)
                THEN 0
                ELSE IF ledger[id].transaction_type = "credit"
                THEN ledger[id].amount
                ELSE 0 - ledger[id].amount], Len(ledger))

\* C19: the statement over a date range holds exactly the landlord's payment
\* lines and ledger lines dated in the inclusive range, its running balance
\* starts at 0 and counts those lines only; without a filter it has the
\* lines and the final balance of the whole statement.
C19_RangeStatement ==
    [][(Req.op = "landlord_account_view" /\ Req.result = "success") =>
         LET txs == Req.transactions
             N == Len(txs)
             l == Req.landlord_id
             s == Req.start_date
             e == Req.end_date
         IN  /\ N = Cardinality({id \in LandlordPaymentIds(l) :
                        Within(payments[id].payment_date, s, e)})
                   + Cardinality({id \in LandlordTransactionIds(l) :
                        Within(ledger[id].date, s, e)})
             /\ \A i \in 1..N : Within(txs[i].date, s, e)
             /\ N > 0 => txs[1].balance = txs[1].credit - txs[1].debit
             /\ (IF N = 0 THEN 0 ELSE txs[N].balance) = RangeNet(l, s, e)
             /\ (s = NULL /\ e = NULL)
                  => (IF N = 0 THEN 0 ELSE txs[N].balance)
                       = LandlordNet(l)]_vars

\* the final balances landlord_account_detail can return for the landlord
StatementBalances(landlord_id) ==
    {RunningBalance(merged, Len(merged)) :
       merged \in {SortByDate(Merged(payment_order,
                       RowidOrder(LandlordTransactionIds(landlord_id)))) :
                     payment_order \in
                       FetchOrders(LandlordPaymentIds(landlord_id))}}

\* the sum of b over the landlords
RECURSIVE SumOverLandlords(_, _)
SumOverLandlords(b, landlord_ids) ==
    IF landlord_ids = {}
    THEN 0
    ELSE LET l == CHOOSE x \in landlord_ids : TRUE
         IN  b[l] + SumOverLandlords(b, landlord_ids \ {l})

\* C20: the general balance of the dashboard is the sum over the landlords
\* of payments on their properties plus credit entries minus debit entries,
\* and it is the sum over the landlords of the final balance of the
\* landlord's whole statement.
C20_GeneralBalance ==
    [][Req.op = "dashboard" =>
         /\ Req.balance
              = SumOverLandlords([l \in LandlordIds |-> LandlordNet(l)],
                                 LandlordIds)
         /\ \A b \in [LandlordIds ->
                         UNION {StatementBalances(l) : l \in LandlordIds}] :
                (\A l \in LandlordIds : b[l] \in StatementBalances(l))
                  => Req.balance = SumOverLandlords(b, LandlordIds)]_vars

\* the dashboard was shown while both landlords had rows, a credit entry and
\* a debit entry among them
C20_Witness ==
    /\ resp.op = "dashboard"
    /\ \A l \in LandlordIds :
          LandlordPaymentIds(l) \cup LandlordTransactionIds(l) # {}
    /\ \E id \in 1..Len(ledger) : ledger[id].transaction_type = "debit"
    /\ \E id \in 1..Len(ledger) : ledger[id].transaction_type = "credit"
    /\ Len(payments) > 0
    /\ resp.balance # 0

(* ------------------------- payment row properties ---------------------- *)

\* the fields of a payment row that no handler writes after the INSERT
FixedFields(row) ==
    <<row.tenant_id, row.property_id, row.unit_id, row.amount,
      row.payment_method, row.payment_date, row.created_at, row.credit,
      row.debit>>

\* C21 as stated: a payment row is never deleted, none of its fields other
\* than balance_due ever changes (payment_type included), and balance_due
\* changes only from a positive value to 0.
C21_OnlyBalanceDueChanges ==
    [][\A id \in 1..Len(payments) :
          /\ id <= Len(payments')
          /\ FixedFields(payments'[id]) = FixedFields(payments[id])
          /\ payments'[id].payment_type = payments[id].payment_type
          /\ payments'[id].balance_due # payments[id].balance_due
               => /\ payments[id].balance_due > 0
                  /\ payments'[id].balance_due = 0]_vars

\* C21 amended: a payment row is never deleted; its fields other than
\* balance_due and payment_type never change; balance_due changes only from
\* a positive value to 0, and payment_type changes only to Full, in a step
\* that takes the balance_due of the row from a positive value to 0.
C21_RowsKeepTheirFields ==
    [][\A id \in 1..Len(payments) :
          /\ id <= Len(payments')
          /\ FixedFields(payments'[id]) = FixedFields(payments[id])
          /\ payments'[id].balance_due # payments[id].balance_due
               => /\ payments[id].balance_due > 0
                  /\ payments'[id].balance_due = 0
          /\ payments'[id].payment_type # payments[id].payment_type
               => /\ payments'[id].payment_type = "Full"
                  /\ payments[id].balance_due > 0
                  /\ payments'[id].balance_due = 0]_vars

\* an open row of add_payment was closed by a later payment: it is Full
\* with balance_due 0 and still carries the credit 0 of a Partial row
C21_Witness ==
    \E id \in 1..Len(payments) :
        /\ payments[id].payment_type = "Full"
        /\ payments[id].balance_due = 0
        /\ payments[id].credit = 0
        /\ payments[id].amount > 0
        /\ id < Len(payments)

\* the management fee of add_payment applies: a cycle was completed before
\* and nothing is outstanding when the request arrives
FeeApplies(tenant_id) ==
    IsRenewal(tenant_id) /\ TotalOutstanding(tenant_id) = 0

C23_CompletionClosesOpenRows ==
    [][(AcceptedPayment /\ NewRow.balance_due = 0) =>
         /\ \A id \in 1..Len(payments') :
                payments'[id].tenant_id = Req.tenant_id
                  => payments'[id].balance_due <= 0
         /\ \A id \in 1..Len(payments) :
                IF payments[id].tenant_id = Req.tenant_id
                THEN payments[id].balance_due > 0
                       => /\ payments'[id].balance_due = 0
                          /\ payments'[id].payment_type = "Full"
                ELSE payments'[id] = payments[id]]_vars

\* a completing payment closed an open row of its tenant while an open row
\* of another tenant stayed open
C23_Witness ==
    /\ resp.op = "add_payment"
    /\ resp.result = "success"
    /\ LastRow.balance_due = 0
    /\ \E id \in 1..(Len(payments) - 1) :
          /\ payments[id].tenant_id = resp.tenant_id
          /\ payments[id].payment_type = "Full"
          /\ payments[id].credit = 0
    /\ \E id \in 1..(Len(payments) - 1) :
          /\ payments[id].tenant_id # resp.tenant_id
          /\ payments[id].balance_due > 0

(* ------------------------ ledger entry properties ---------------------- *)

\* C24: every ledger entry stored, by renew_rent or by a manual entry, has
\* transaction_type credit or debit and amount > 0; a manual entry whose
\* type is neither or whose amount is not a number is rejected and writes
\* no entry.
C24_EntriesWellFormed ==
    [][/\ \A id \in 1..Len(ledger') :
             /\ ledger'[id].transaction_type \in {"credit", "debit"}
             /\ ledger'[id].amount > 0
       /\ (/\ Req.op = "add_landlord_transaction"
           /\ \/ Req.transaction_type \notin {"credit", "debit"}
              \/ Req.amount_raw \notin {"0", "10", "-10"})
            => /\ Req.result # "success"
               /\ ledger' = ledger]_vars

\* what add_payment, run alone on the table as it is now, makes of it
SerialPayments(tenant_id, amount, payment_method, payment_date) ==
    LET row == NewPaymentRow(tenant_id, amount, payment_method, payment_date)
        inserted == Append(payments, row)
    IN  IF TotalOutstanding(tenant_id) > 0 /\ row.balance_due = 0
        THEN ClearOldPartials(inserted, tenant_id, Len(inserted))
        ELSE inserted

\* C25: whatever the interleaving of two concurrent record_payment calls, the
\* payment rows change only when one call commits, and the commit leaves
\* exactly the rows that call would have produced run alone at that moment,
\* classified against the total_outstanding and completed cycles of that
\* moment: the final rows are those of the committed calls run one after the
\* other in commit order, a refused call leaving no row, and no two calls
\* both commit a classification made against the same pre-read total.
C25_CommitsAreSerial ==
    [][payments' # payments =>
        \E s \in Sessions :
            /\ txn[s].pc = "written"
            /\ txn'[s].result = "success"
            /\ TenantFound(txn[s].tenant_id)
            /\ txn[s].total_outstanding = TotalOutstanding(txn[s].tenant_id)
            /\ txn[s].is_renewal = IsRenewal(txn[s].tenant_id)
            /\ ~AmountExceeds(txn[s].amount,
                              TotalOutstanding(txn[s].tenant_id),
                              RentAmount(txn[s].tenant_id))
            /\ payments' = SerialPayments(txn[s].tenant_id, txn[s].amount,
                                          txn[s].payment_method,
                                          txn[s].payment_date)]_vars

\* two calls for the same tenant overlapped: both read the same
\* total_outstanding of an open cycle, one committed its row and the other
\* was refused
C25_Witness ==
    \E s \in Sessions, o \in Sessions :
        /\ txn[s].pc = "idle" /\ txn[o].pc = "idle"
        /\ txn[s].tenant_id = txn[o].tenant_id
        /\ txn[s].total_outstanding = txn[o].total_outstanding
        /\ txn[s].total_outstanding > 0
        /\ txn[s].result = "success"
        /\ txn[o].result = "database is locked"
        /\ TotalOutstanding(txn[s].tenant_id) # txn[o].total_outstanding

RECURSIVE PaidInOpenCycle(_, _)
\* the amounts the tenant paid in rows 1..i since its last closing payment;
\* in a history of add_payment alone the closing payment of a cycle is the
\* row carrying a credit, the payments that left the cycle open carry none
PaidInOpenCycle(tenant_id, i) ==
    IF i = 0
    THEN 0
    ELSE IF payments[i].tenant_id # tenant_id
    THEN PaidInOpenCycle(tenant_id, i - 1)
    ELSE IF payments[i].credit > 0
    THEN 0
    ELSE PaidInOpenCycle(tenant_id, i - 1) + payments[i].amount

\* the amounts accepted in the cycle of row i, up to and including row i
PaidInCycle(i) ==
    PaidInOpenCycle(payments[i].tenant_id, i - 1) + payments[i].amount

\* C26: in a history of record_payment calls the amounts accepted from the
\* opening of a cycle up to any of its payments, the closing one included,
\* never sum to more than the tenant's rent.
C26_CycleWithinRent ==
    \A i \in DOMAIN payments :
        PaidInCycle(i) <= RentAmount(payments[i].tenant_id)

\* the final balance of the unfiltered statement landlord_account_detail
\* builds for a landlord from the rows of the two tables: every payment on
\* its properties is a credit of payment.amount, every ledger entry a credit
\* or a debit of its amount; the order of the lines does not change the sum
FinalBalance(payment_rows, ledger_rows, landlord_id) ==
    SumTo([id \in 1..Len(payment_rows) |->
              IF /\ payment_rows[id].property_id # NULL
                 /\ properties[payment_rows[id].property_id].landlord_id
                      = landlord_id
              THEN payment_rows[id].amount ELSE 0], Len(payment_rows))
    + SumTo([id \in 1..Len(ledger_rows) |->
                IF ledger_rows[id].landlord_id # landlord_id THEN 0
                ELSE IF ledger_rows[id].transaction_type = "credit"
                THEN ledger_rows[id].amount
                ELSE 0 - ledger_rows[id].amount], Len(ledger_rows))

\* C27: a successful renew_rent of amount a raises the final balance of the
\* statement of the tenant's landlord by the landlord net of the call:
\* a - 0.10 x a for a tenant with a Full row of balance 0, a for any other.
C27_RenewalRaisesBalanceByNet ==
    [][(Req.op = "renew_rent" /\ Req.result = "success")
       => LET landlord_id ==
                  properties[tenants[Req.tenant_id].property_id].landlord_id
          IN  FinalBalance(payments', ledger', landlord_id)
                - FinalBalance(payments, ledger, landlord_id)
                = IF IsRenewal(Req.tenant_id)
                  THEN Req.amount - Deduction(Req.amount)
                  ELSE Req.amount]_vars

\* the property has rows in property_units
HasUnits(property_id) == \E u \in UnitIds : units[u].property_id = property_id

\* C28: a property that has units is Occupied only if every one of its units
\* is Occupied.
C28_OccupiedOnlyWhenFull ==
    \A p \in PropertyIds :
        (HasUnits(p) /\ properties[p].status = "Occupied")
            => \A u \in UnitIds :
                   units[u].property_id = p => units[u].status = "Occupied"

RECURSIVE AttributedInOpenCycle(_, _)
\* credit + debit over the rows the tenant has in 1..i since its last
\* closing payment
AttributedInOpenCycle(tenant_id, i) ==
    IF i = 0
    THEN 0
    ELSE IF payments[i].tenant_id # tenant_id
    THEN AttributedInOpenCycle(tenant_id, i - 1)
    ELSE IF payments[i].credit > 0
    THEN 0
    ELSE AttributedInOpenCycle(tenant_id, i - 1)
           + payments[i].credit + payments[i].debit

\* C29: in a history of record_payment calls, over the rows of every closed
\* cycle (the rows of the tenant from the opening payment to the closing one)
\* the credits and debits sum to the amounts paid.
C29_ClosedCycleReconciles ==
    \A i \in DOMAIN payments :
        payments[i].credit > 0
            => AttributedInOpenCycle(payments[i].tenant_id, i - 1)
                 + payments[i].credit + payments[i].debit
               = PaidInCycle(i)

\* C30: an add_payment that stores a debit on its row, or a renew_rent that
\* writes a debit ledger entry, is a call for a tenant that already had a
\* Full row of balance 0 when the call was made.
C30_FeeOnlyAfterCompletedCycle ==
    [][(/\ Req.op \in {"add_payment", "renew_rent"}
        /\ Req.result = "success"
        /\ \/ Req.op = "add_payment" /\ NewRow.debit > 0
           \/ \E k \in 1..Len(NewLedger) :
                  NewLedger[k].transaction_type = "debit")
       => \E i \in DOMAIN payments :
              /\ payments[i].tenant_id = Req.tenant_id
              /\ payments[i].payment_type = "Full"
              /\ payments[i].balance_due = 0]_vars

\* both kinds of fee were produced: a debit entry by a renewal, then a debit
\* on the row of a payment that opened and closed a cycle at once
C30_Witness ==
    /\ resp.op = "add_payment"
    /\ resp.result = "success"
    /\ LastRow.debit > 0
    /\ \E k \in DOMAIN ledger : ledger[k].transaction_type = "debit"

====
